---- MODULE Spec2Model ----
(***************************************************************************)
(* A model of claude-max-api-proxy: the subprocess manager                 *)
(* (ClaudeSubprocess) that spawns the backend CLI, feeds it, parses its    *)
(* line-delimited JSON output and enforces a deadline, the request         *)
(* adapter (openai-to-cli) that turns a chat request into the CLI input,   *)
(* and the response adapter (cli-to-openai) that turns the CLI's messages  *)
(* into the outbound response and chunks.                                  *)
(*                                                                         *)
(* Strings are sequences of one-character strings, so that splitting,      *)
(* trimming and joining are computed and not assumed.  Bytes on the        *)
(* child's stdout are a separate alphabet that Utf8Decode turns into       *)
(* characters the way Buffer.toString() does.                              *)
(***************************************************************************)
EXTENDS Integers, Sequences, FiniteSets, TLC

VARIABLES
    process,       \* this.process: "null" or "child"
    buffer,        \* this.buffer: the text after the last newline seen
    timeoutId,     \* this.timeoutId: "null", or the field holds a timer handle
    isKilled,      \* this.isKilled
    timerPending,  \* the runtime still holds the deadline timer armed by start()
    child,         \* the child process as the runtime sees it
    spawnErr,      \* the error the runtime will deliver on the child's 'error' event
    startPromise,  \* the promise start() returned
    argv,          \* the argument vector handed to spawn()
    stdin,         \* what was written to the child's stdin, and whether it was ended
    signals,       \* the signals delivered to the child, in order
    events,        \* the events the manager emitted, in order
    received,      \* history: the stdout bytes delivered so far, in order
    text,          \* history: the decoded text appended to the buffer so far
    killCalls,     \* history: the number of kill() calls made
    call,          \* history: the arguments of start(): <<>> or <<arguments>>
    stderrLog,     \* history: the stderr chunks the manager has handled
    orphans,       \* what earlier start() calls on the instance left behind: the
                   \* armed timers and running children that no field refers to
                   \* any more, and the number of repeated start() calls
    self,          \* the manager instance whose fields the variables above hold
    others,        \* the fields of every other manager instance
    request,       \* the inbound chat request
    cli,           \* the request adapter's output: <<>> or <<CliInput>>
    flat,          \* the single-prompt encoding of the messages: <<>> or <<prompt>>
    rawContent,    \* a message content value handed to the content normalizers
    normalized,    \* what each normalizer made of it: <<>>, or its outcome
    handled,       \* history: the manager events the response decoder has handled
    isFirst,       \* the streaming handler's flag: no chunk was written yet
    chunks,        \* the outbound chunks written, in order
    response       \* the outbound response: <<>> or <<OpenAIChatResponse>>

mgrVars == <<process, buffer, timeoutId, isKilled, timerPending, child, spawnErr,
             startPromise, argv, stdin, signals, events, received, text,
             killCalls, call, stderrLog, orphans>>
peerVars == <<self, others>>
adapterVars == <<request, cli, flat, rawContent, normalized>>
decoderVars == <<handled, isFirst, chunks, response>>
vars == <<process, buffer, timeoutId, isKilled, timerPending, child, spawnErr,
          startPromise, argv, stdin, signals, events, received, text,
          killCalls, call, stderrLog, orphans, self, others, request, cli, flat, rawContent, normalized, handled, isFirst,
          chunks, response>>

----------------------------------------------------------------------------
(* Bounds of the model. *)

\* stdout bytes one child writes
MaxBytes == 4
\* kill() calls on one instance
MaxKillCalls == 2
\* "/"-separated segments of a model identifier
MaxSegments == 2
\* messages of one request
MaxMessages == 2
\* structured lines handed to one start() call
MaxLines == 2
\* elements of one content array
MaxParts == 2
\* events of one response handed to the response decoder
MaxEvents == 4
MaxRestarts == 1

----------------------------------------------------------------------------
(* Strings. *)

\* an optional value: absent (undefined, null), or present with a value
None == <<>>
Some(v) == <<v>>

NL == "\n"
Whitespace == {" ", NL}

RECURSIVE TrimStart(_)
TrimStart(s) ==
    IF s # <<>> /\ Head(s) \in Whitespace THEN TrimStart(Tail(s)) ELSE s

RECURSIVE TrimEnd(_)
TrimEnd(s) ==
    IF s # <<>> /\ s[Len(s)] \in Whitespace
    THEN TrimEnd(SubSeq(s, 1, Len(s) - 1))
    ELSE s

\* String.prototype.trim
Trim(s) == TrimEnd(TrimStart(s))

\* the first index of c in s, 0 when there is none
IndexOf(s, c) ==
    IF \E i \in 1..Len(s) : s[i] = c
    THEN CHOOSE i \in 1..Len(s) : s[i] = c /\ \A j \in 1..(i - 1) : s[j] # c
    ELSE 0

\* String.prototype.split(sep) for a one-character separator
RECURSIVE Split(_, _)
Split(s, sep) ==
    LET i == IndexOf(s, sep)
    IN  IF i = 0
        THEN <<s>>
        ELSE <<SubSeq(s, 1, i - 1)>> \o Split(SubSeq(s, i + 1, Len(s)), sep)

\* Array.prototype.join(sep), sep a string
RECURSIVE Join(_, _)
Join(parts, sep) ==
    IF parts = <<>> THEN <<>>
    ELSE IF Len(parts) = 1 THEN parts[1]
    ELSE parts[1] \o sep \o Join(Tail(parts), sep)

\* the sequences over S of length at most n
SeqsUpTo(S, n) == UNION {[1..k -> S] : k \in 0..n}

----------------------------------------------------------------------------
(* The child's stdout: bytes, and their decoding by chunk.toString().      *)

\* the two bytes of one two-byte UTF-8 character (U+00E9)
LeadByte == "C3"
ContByte == "A9"
\* the character they encode, and U+FFFD, which replaces an invalid byte
TwoByteChar == "e-acute"
Replacement == "U+FFFD"

\* One symbol stands for the whole text of one JSON document of each kind the
\* CLI writes: a content delta, an assistant message, a result, a system message.
JsonSymbols == {"D", "A", "R", "M"}

StdoutBytes == {NL, " ", LeadByte, ContByte} \cup JsonSymbols

\* Buffer.prototype.toString(): UTF-8 decoding of one chunk on its own; a byte
\* that does not form a complete character within the chunk becomes U+FFFD.
RECURSIVE Utf8Decode(_)
Utf8Decode(bytes) ==
    IF bytes = <<>> THEN <<>>
    ELSE IF Head(bytes) = LeadByte
    THEN IF Len(bytes) >= 2 /\ bytes[2] = ContByte
         THEN <<TwoByteChar>> \o Utf8Decode(SubSeq(bytes, 3, Len(bytes)))
         ELSE <<Replacement>> \o Utf8Decode(Tail(bytes))
    ELSE IF Head(bytes) = ContByte
    THEN <<Replacement>> \o Utf8Decode(Tail(bytes))
    ELSE <<Head(bytes)>> \o Utf8Decode(Tail(bytes))

----------------------------------------------------------------------------
(* Classification of one output line. *)

\* JSON.parse succeeds: the text is exactly one JSON document
JsonParses(s) == Len(s) = 1 /\ s[1] \in JsonSymbols

\* JSON.parse: the message the document denotes, written <<type>> (its type
\* discriminator) so that every event payload is a sequence of strings
JsonParse(s) ==
    << CASE s[1] = "D" -> "stream_event"
         [] s[1] = "A" -> "assistant"
         [] s[1] = "R" -> "result"
         [] OTHER      -> "system" >>

MessageType(message) == message[1]

\* the type guards of types/claude-cli
isContentDelta(message) == MessageType(message) = "stream_event"
isAssistantMessage(message) == MessageType(message) = "assistant"
isResultMessage(message) == MessageType(message) = "result"

Event(name, payload) == <<name, payload>>

\* LineEvents without its skip of the lines that are empty once trimmed
LineEventsNoSkip(line) ==
    LET trimmed == Trim(line)
    IN  IF trimmed # <<>> /\ JsonParses(trimmed)
        THEN LET message == JsonParse(trimmed)
             IN  <<Event("message", message)>> \o
                 (IF isContentDelta(message)
                    THEN <<Event("content_delta", message)>>
                  ELSE IF isAssistantMessage(message)
                    THEN <<Event("assistant", message)>>
                  ELSE IF isResultMessage(message)
                    THEN <<Event("result", message)>>
                  ELSE <<>>)
        ELSE <<Event("raw", trimmed)>>

\* processBuffer's loop body for one line
LineEvents(line) ==
    LET trimmed == Trim(line)
    IN  IF trimmed = <<>> THEN <<>>
        ELSE IF JsonParses(trimmed)
        THEN LET message == JsonParse(trimmed)
             IN  <<Event("message", message)>> \o
                 (IF isContentDelta(message)
                    THEN <<Event("content_delta", message)>>
                  ELSE IF isAssistantMessage(message)
                    THEN <<Event("assistant", message)>>
                  ELSE IF isResultMessage(message)
                    THEN <<Event("result", message)>>
                  ELSE <<>>)
        ELSE <<Event("raw", trimmed)>>

\* EmitLines with a loop that a line which is no JSON ends
RECURSIVE EmitLinesAbort(_)
EmitLinesAbort(lines) ==
    IF lines = <<>> THEN <<>>
    ELSE IF Trim(Head(lines)) # <<>> /\ ~JsonParses(Trim(Head(lines)))
    THEN LineEvents(Head(lines))
    ELSE LineEvents(Head(lines)) \o EmitLinesAbort(Tail(lines))

\* the loop of processBuffer over the complete lines
RECURSIVE EmitLines(_)
EmitLines(lines) ==
    IF lines = <<>> THEN <<>>
    ELSE LineEvents(Head(lines)) \o EmitLines(Tail(lines))

\* processBuffer without the pop(): the last fragment is kept and emitted too
processBufferNoPop(buf) ==
    LET lines == Split(buf, NL)
        last == lines[Len(lines)]
    IN  [buffer  |-> last,
         emitted |-> EmitLines(lines)]

\* processBuffer: the buffer it keeps and the events it emits
processBuffer(buf) ==
    LET lines == Split(buf, NL)
        last == lines[Len(lines)]
    IN  [buffer  |-> last,
         emitted |-> EmitLines(SubSeq(lines, 1, Len(lines) - 1))]

----------------------------------------------------------------------------
(* The subprocess manager (ClaudeSubprocess). *)

\* a fixed element of the argument vector
Arg(flag) == <<flag>>

SystemPromptText == "You are a helpful assistant. Follow the user's instructions precisely. When asked to output JSON, output ONLY raw JSON without markdown code fences."

\* buildArgs(prompt, options, streamInput); prompt is None for null
buildArgs(prompt, options, streamInput) ==
    LET args == << Arg("--print"), Arg("--output-format"), Arg("stream-json"),
                   Arg("--verbose"), Arg("--include-partial-messages"),
                   Arg("--model"), Arg(options.model),
                   Arg("--no-session-persistence"),
                   Arg("--tools"), <<>>,
                   Arg("--disable-slash-commands"),
                   Arg("--setting-sources"), <<>>,
                   Arg("--system-prompt"), Arg(SystemPromptText) >>
        withInput ==
            IF streamInput
            THEN args \o <<Arg("--input-format"), Arg("stream-json")>>
            ELSE IF prompt # None /\ prompt[1] # <<>>
            THEN Append(args, prompt[1])
            ELSE args
    IN  IF options.sessionId # None /\ options.sessionId[1] # <<>>
        THEN withInput \o <<Arg("--session-id"), options.sessionId[1]>>
        ELSE withInput

\* resolve() / reject(): a promise settles once, later calls change nothing
Settle(promise, outcome) == IF promise = "pending" THEN outcome ELSE promise

NotFoundError == "rejected: Claude CLI not found. Install with: npm install -g @anthropic-ai/claude-code"
SpawnError(code) == "rejected: spawn claude " \o code

\* the spawn errors the runtime reports on the child's 'error' event, and the
\* one it throws from spawn() itself
AsyncSpawnErrors == {"ENOENT", "EACCES"}
SpawnOutcomes == {"ok", "throws"} \cup AsyncSpawnErrors

\* the timeout callback's and kill()'s call of process.kill(signal): the
\* runtime delivers the signal only to a child that still runs
ProcessKill(signal) ==
    signals' = IF child = "running" THEN Append(signals, signal) ELSE signals

\* this.clearTimeout()
ClearTimeout ==
    IF timeoutId # "null"
    THEN timeoutId' = "null" /\ timerPending' = FALSE
    ELSE UNCHANGED <<timeoutId, timerPending>>

TimeoutError == <<"error", <<"Request timed out">>>>
CloseEvent == <<"close", <<>>>>

\* stdin.write(data) and stdin.end() on the child's stdin: `calls` is the
\* sequence of calls made, `written` the data the stream accepted (a write
\* after end() is refused)
StdinWrite(stream, data) ==
    [written |-> IF stream.ended THEN stream.written
                 ELSE Append(stream.written, data),
     ended   |-> stream.ended,
     calls   |-> Append(stream.calls, <<"write", data>>)]
StdinEnd(stream) ==
    [written |-> stream.written,
     ended   |-> TRUE,
     calls   |-> Append(stream.calls, <<"end", <<>>>>)]

\* the loop over the lines: write(line + "\n") for each, in order
RECURSIVE WriteLines(_, _)
WriteLines(stream, lines) ==
    IF lines = <<>> THEN stream
    ELSE WriteLines(StdinWrite(stream, Head(lines) \o <<NL>>), Tail(lines))

\* the stdin pipe of a child just spawned
NewStdin == [written |-> <<>>, ended |-> FALSE, calls |-> <<>>]

\* the stdin of the child ended before the lines are written
PipeMessagesEndFirst(lines) == WriteLines(StdinEnd(NewStdin), lines)

\* "Pipe messages via stdin or close it": the lines, then end()
PipeMessages(lines) == StdinEnd(WriteLines(NewStdin, lines))

\* start(prompt, options): the whole promise executor, which runs to its end
\* before any event of the child is dispatched
Start(prompt, options, outcome) ==
    LET useStreamInput ==
            options.stdinMessages # None /\ Len(options.stdinMessages[1]) > 0
        args == buildArgs(IF useStreamInput THEN None ELSE Some(prompt),
                          options, useStreamInput)
        lines == IF useStreamInput /\ options.stdinMessages # None
                 THEN options.stdinMessages[1] ELSE <<>>
    IN  /\ startPromise = "none"
        /\ call' = <<[prompt |-> prompt, options |-> options]>>
        /\ argv' = args
        /\ IF outcome = "throws"
           THEN \* spawn() throws: the catch clause clears the timer and rejects
                /\ ClearTimeout
                /\ startPromise' = Settle("pending", SpawnError("EINVAL"))
                /\ UNCHANGED <<process, child, spawnErr, stdin>>
           ELSE /\ process' = "child"
                /\ child' = IF outcome = "ok" THEN "running" ELSE "failing"
                /\ spawnErr' = outcome
                /\ timeoutId' = "set"
                /\ timerPending' = TRUE
                /\ stdin' = PipeMessages(lines)
                /\ startPromise' = Settle("pending", "resolved")
        /\ UNCHANGED <<buffer, isKilled, signals, events, received, text,
                       killCalls, stderrLog, orphans>>

\* TimerFires with a callback that does not mark the handle killed
TimerFiresNoMark ==
    /\ timerPending
    /\ child # "failing"
    /\ timerPending' = FALSE
    /\ IF ~isKilled
       THEN /\ ProcessKill("SIGTERM")
            /\ events' = Append(events, TimeoutError)
       ELSE UNCHANGED <<signals, events>>
    /\ UNCHANGED <<process, buffer, timeoutId, isKilled, child, spawnErr,
                   startPromise, argv, stdin, received, text, killCalls>>
    /\ UNCHANGED <<call, stderrLog, orphans>>

\* the timer armed by start() fires; a pending 'error' event of the child
\* (queued for the next tick) is dispatched before any timer
TimerFires ==
    /\ timerPending
    /\ child # "failing"
    /\ timerPending' = FALSE
    /\ IF ~isKilled
       THEN /\ isKilled' = TRUE
            /\ ProcessKill("SIGTERM")
            /\ events' = Append(events, TimeoutError)
       ELSE UNCHANGED <<isKilled, signals, events>>
    /\ UNCHANGED <<process, buffer, timeoutId, child, spawnErr, startPromise, argv,
                   stdin, received, text, killCalls>>
    /\ UNCHANGED <<call, stderrLog, orphans>>

\* the child's 'error' event (spawn failed)
ChildError ==
    /\ child = "failing"
    /\ child' = "failed"
    /\ ClearTimeout
    /\ startPromise' =
         Settle(startPromise,
                IF spawnErr = "ENOENT" THEN NotFoundError ELSE SpawnError(spawnErr))
    /\ UNCHANGED <<process, buffer, isKilled, spawnErr, argv, stdin, signals, events,
                   received, text, killCalls>>
    /\ UNCHANGED <<call, stderrLog, orphans>>

\* the child's stdout 'data' event
StdoutData(chunk) ==
    /\ child = "running"
    /\ chunk # <<>>
    /\ Len(received) + Len(chunk) <= MaxBytes
    /\ LET data == Utf8Decode(chunk)
           done == processBuffer(buffer \o data)
       IN  /\ buffer' = done.buffer
           /\ events' = events \o done.emitted
           /\ text' = text \o data
    /\ received' = received \o chunk
    /\ UNCHANGED <<process, timeoutId, isKilled, timerPending, child, spawnErr,
                   startPromise, argv, stdin, signals, killCalls>>
    /\ UNCHANGED <<call, stderrLog, orphans>>

\* the stderr 'data' handler doing what the stdout handler does
StderrDataParsed(chunk) ==
    /\ child = "running"
    /\ LET done == processBuffer(buffer \o Utf8Decode(chunk))
       IN  /\ buffer' = done.buffer
           /\ events' = events \o done.emitted
    /\ stderrLog' = stderrLog \cup {chunk}
    /\ UNCHANGED <<process, timeoutId, isKilled, timerPending, child, spawnErr,
                   startPromise, argv, stdin, signals, received, text, killCalls>>
    /\ UNCHANGED <<call, orphans>>

\* the child's stderr 'data' event: the text is logged only
StderrData(chunk) ==
    /\ child = "running"
    /\ UNCHANGED <<process, buffer, timeoutId, isKilled, timerPending, child,
                   spawnErr, startPromise, argv, stdin, signals, events, received,
                   text, killCalls>>
    /\ stderrLog' = stderrLog \cup {chunk}
    /\ UNCHANGED <<call, orphans>>

\* the 'close' handler without its call of clearTimeout()
ChildCloseKeepsTimer ==
    /\ child \in {"running", "failed"}
    /\ child' = "closed"
    /\ IF Trim(buffer) # <<>>
       THEN LET done == processBuffer(buffer)
            IN  /\ buffer' = done.buffer
                /\ events' = (events \o done.emitted) \o <<CloseEvent>>
       ELSE /\ buffer' = buffer
            /\ events' = Append(events, CloseEvent)
    /\ UNCHANGED <<process, timeoutId, timerPending, isKilled, spawnErr,
                   startPromise, argv, stdin, signals, received, text, killCalls>>
    /\ UNCHANGED <<call, stderrLog, orphans>>

\* the child's 'close' event (after a spawn failure the runtime closes the
\* child too)
ChildClose ==
    /\ child \in {"running", "failed"}
    /\ child' = "closed"
    /\ ClearTimeout
    /\ IF Trim(buffer) # <<>>
       THEN LET done == processBuffer(buffer)
            IN  /\ buffer' = done.buffer
                /\ events' = (events \o done.emitted) \o <<CloseEvent>>
       ELSE /\ buffer' = buffer
            /\ events' = Append(events, CloseEvent)
    /\ UNCHANGED <<process, isKilled, spawnErr, startPromise, argv, stdin, signals,
                   received, text, killCalls>>
    /\ UNCHANGED <<call, stderrLog, orphans>>

\* kill(signal) without its test of the killed flag
KillUnguarded(signal) ==
    /\ killCalls < MaxKillCalls
    /\ killCalls' = killCalls + 1
    /\ IF process # "null"
       THEN /\ isKilled' = TRUE
            /\ ClearTimeout
            /\ ProcessKill(signal)
       ELSE UNCHANGED <<isKilled, timeoutId, timerPending, signals>>
    /\ UNCHANGED <<process, buffer, child, spawnErr, startPromise, argv, stdin,
                   events, received, text>>
    /\ UNCHANGED <<call, stderrLog, orphans>>

\* kill(signal) without its call of clearTimeout()
KillKeepsTimer(signal) ==
    /\ killCalls < MaxKillCalls
    /\ killCalls' = killCalls + 1
    /\ IF ~isKilled /\ process # "null"
       THEN /\ isKilled' = TRUE
            /\ ProcessKill(signal)
       ELSE UNCHANGED <<isKilled, signals>>
    /\ UNCHANGED <<process, buffer, timeoutId, timerPending, child, spawnErr,
                   startPromise, argv, stdin, events, received, text>>
    /\ UNCHANGED <<call, stderrLog, orphans>>

\* kill(signal)
Kill(signal) ==
    /\ killCalls < MaxKillCalls
    /\ killCalls' = killCalls + 1
    /\ IF ~isKilled /\ process # "null"
       THEN /\ isKilled' = TRUE
            /\ ClearTimeout
            /\ ProcessKill(signal)
       ELSE UNCHANGED <<isKilled, timeoutId, timerPending, signals>>
    /\ UNCHANGED <<process, buffer, child, spawnErr, startPromise, argv, stdin,
                   events, received, text>>
    /\ UNCHANGED <<call, stderrLog, orphans>>

----------------------------------------------------------------------------
(* The specification of one manager instance. *)

NoOrphans == [restarts |-> 0, timers |-> 0, children |-> 0]

MgrInit ==
    /\ process = "null"
    /\ buffer = <<>>
    /\ timeoutId = "null"
    /\ isKilled = FALSE
    /\ timerPending = FALSE
    /\ child = "none"
    /\ spawnErr = "none"
    /\ startPromise = "none"
    /\ argv = <<>>
    /\ stdin = [written |-> <<>>, ended |-> FALSE, calls |-> <<>>]
    /\ signals = <<>>
    /\ events = <<>>
    /\ received = <<>>
    /\ text = <<>>
    /\ killCalls = 0
    /\ call = <<>>
    /\ stderrLog = {}
    /\ orphans = NoOrphans

\* the manager instances alive at once
Instances == {"m1", "m2"}

\* the fields of a manager as its constructor and field initialisers leave them
NewManager ==
    [process |-> "null", buffer |-> <<>>, timeoutId |-> "null", isKilled |-> FALSE,
     timerPending |-> FALSE, child |-> "none", spawnErr |-> "none",
     startPromise |-> "none", argv |-> <<>>,
     stdin |-> [written |-> <<>>, ended |-> FALSE, calls |-> <<>>], signals |-> <<>>,
     events |-> <<>>, received |-> <<>>, text |-> <<>>, killCalls |-> 0,
     call |-> <<>>, stderrLog |-> {}, orphans |-> NoOrphans]

\* the fields of the instance the handlers currently run on
This ==
    [process |-> process, buffer |-> buffer, timeoutId |-> timeoutId,
     isKilled |-> isKilled, timerPending |-> timerPending, child |-> child,
     spawnErr |-> spawnErr, startPromise |-> startPromise, argv |-> argv,
     stdin |-> stdin, signals |-> signals, events |-> events,
     received |-> received, text |-> text, killCalls |-> killCalls,
     call |-> call, stderrLog |-> stderrLog, orphans |-> orphans]

\* every handler runs to completion on one instance: that instance's fields
\* are the variables, and the fields of the others wait in `others`
PeersInit ==
    /\ self = "m1"
    /\ others = [i \in Instances |-> NewManager]

NoRequest == [model |-> <<"opus">>, messages |-> <<>>, user |-> None]

\* the inputs of start() under which the manager's life is explored
TextOptions == [model |-> "opus", sessionId |-> None, stdinMessages |-> None]

\* nothing was normalized or flattened yet
AdapterIdle ==
    /\ cli = <<>>
    /\ flat = <<>>
    /\ rawContent = None
    /\ normalized = [extractTextContent |-> <<>>, extractContentText |-> <<>>]

\* a response decoder that has handled no event
DecoderInit ==
    /\ handled = <<>>
    /\ isFirst = TRUE
    /\ chunks = <<>>
    /\ response = <<>>

Init ==
    /\ MgrInit
    /\ PeersInit
    /\ request = NoRequest
    /\ AdapterIdle
    /\ DecoderInit

Signals == {"SIGTERM", "SIGKILL"}

\* the chunks the child may still write: at most MaxBytes bytes in all
ChunksLeft(alphabet) == SeqsUpTo(alphabet, MaxBytes - Len(received)) \ {<<>>}

\* the bytes written while the manager's whole life is explored: a line end, a
\* JSON document and a byte that is no JSON
LifeBytes == {NL, "R", LeadByte}

Next ==
    \/ \E outcome \in SpawnOutcomes :
           Start(<<"p">>, TextOptions, outcome) /\ UNCHANGED <<adapterVars, decoderVars, peerVars>>
    \/ TimerFires /\ UNCHANGED <<adapterVars, decoderVars, peerVars>>
    \/ ChildError /\ UNCHANGED <<adapterVars, decoderVars, peerVars>>
    \/ \E chunk \in ChunksLeft(LifeBytes) :
           StdoutData(chunk) /\ UNCHANGED <<adapterVars, decoderVars, peerVars>>
    \/ \E chunk \in {<<"R", NL>>} :
           StderrData(chunk) /\ UNCHANGED <<adapterVars, decoderVars, peerVars>>
    \/ ChildClose /\ UNCHANGED <<adapterVars, decoderVars, peerVars>>
    \/ \E signal \in Signals : Kill(signal) /\ UNCHANGED <<adapterVars, decoderVars, peerVars>>

Spec == Init /\ [][Next]_vars

\* The manager's whole life under fair scheduling by the runtime: a timer
\* that stays armed fires, and a queued 'error' event of the child is
\* delivered. Nothing is assumed of the child but that SIGKILL, which no
\* process can catch or ignore, ends it: it may write or not, and exit or not
\* after SIGTERM.
TimerStep == TimerFires /\ UNCHANGED <<adapterVars, decoderVars, peerVars>>
ErrorStep == ChildError /\ UNCHANGED <<adapterVars, decoderVars, peerVars>>
SigkillStep ==
    /\ \E i \in 1..Len(signals) : signals[i] = "SIGKILL"
    /\ ChildClose
    /\ UNCHANGED <<adapterVars, decoderVars, peerVars>>

SpecLive ==
    /\ Init /\ [][Next]_vars
    /\ WF_vars(TimerStep) /\ WF_vars(ErrorStep) /\ WF_vars(SigkillStep)

\* The output stream of one child that was spawned and runs until it closes,
\* over every byte and every cut into chunks.
StreamNext ==
    \/ Start(<<"p">>, TextOptions, "ok") /\ UNCHANGED <<adapterVars, decoderVars, peerVars>>
    \/ \E chunk \in ChunksLeft(StdoutBytes) :
           StdoutData(chunk) /\ UNCHANGED <<adapterVars, decoderVars, peerVars>>
    \/ \E chunk \in {<<"R", NL>>} :
           StderrData(chunk) /\ UNCHANGED <<adapterVars, decoderVars, peerVars>>
    \/ ChildClose /\ UNCHANGED <<adapterVars, decoderVars, peerVars>>

SpecStream == Init /\ [][StreamNext]_vars

\* the arguments start() is called with: the prompt empty, plain, and with
\* blanks and shell characters; the session id absent, empty and set;
\* stdinMessages absent, empty and holding lines
Prompts == {<<>>, <<"p">>, <<"p", " ", "$", "(", "q", ")", ";">>}
StdinLines == {<<"{", "1", "}">>, <<"{", "2", "}">>}
StartOptions ==
    [model : {"opus", "haiku"},
     sessionId : {None, Some(<<>>), Some(<<"s", " ", "t">>)},
     stdinMessages : {None} \cup {Some(ls) : ls \in SeqsUpTo(StdinLines, MaxLines)}]

\* One start() call with any arguments, and what the child does about it.
StartNext ==
    \/ \E prompt \in Prompts, options \in StartOptions, outcome \in SpawnOutcomes :
           Start(prompt, options, outcome) /\ UNCHANGED <<adapterVars, decoderVars, peerVars>>
    \/ ChildError /\ UNCHANGED <<adapterVars, decoderVars, peerVars>>
    \/ ChildClose /\ UNCHANGED <<adapterVars, decoderVars, peerVars>>

SpecStart == Init /\ [][StartNext]_vars

\* Turn with the buffer held once for all instances, not once per instance
TurnSharedBuffer(j) ==
    /\ j # self
    /\ self' = j
    /\ others' = [others EXCEPT ![self] = This, ![j] = NewManager]
    /\ UNCHANGED buffer
    /\ process' = others[j].process
    /\ timeoutId' = others[j].timeoutId
    /\ isKilled' = others[j].isKilled
    /\ timerPending' = others[j].timerPending
    /\ child' = others[j].child
    /\ spawnErr' = others[j].spawnErr
    /\ startPromise' = others[j].startPromise
    /\ argv' = others[j].argv
    /\ stdin' = others[j].stdin
    /\ signals' = others[j].signals
    /\ events' = others[j].events
    /\ received' = others[j].received
    /\ text' = others[j].text
    /\ killCalls' = others[j].killCalls
    /\ call' = others[j].call
    /\ stderrLog' = others[j].stderrLog
    /\ orphans' = others[j].orphans

\* a stdout chunk with a whole line and the start of the next
PeerChunk == <<"R", NL, "R">>

\* start(prompt, options) called again on an instance that was started
\* before, with a spawn that succeeds: the fields process and timeoutId are
\* overwritten, so the earlier child, if it still runs, and the earlier timer,
\* if it is still armed, stay with the runtime and keep their handlers on
\* this instance; buffer and isKilled are not reset
StartAgain(prompt, options) ==
    LET useStreamInput ==
            options.stdinMessages # None /\ Len(options.stdinMessages[1]) > 0
        args == buildArgs(IF useStreamInput THEN None ELSE Some(prompt),
                          options, useStreamInput)
        lines == IF useStreamInput /\ options.stdinMessages # None
                 THEN options.stdinMessages[1] ELSE <<>>
    IN  /\ startPromise # "none"
        /\ child \in {"running", "closed"}
        /\ orphans.restarts < MaxRestarts
        /\ orphans' = [restarts |-> orphans.restarts + 1,
                       timers   |-> orphans.timers + (IF timerPending THEN 1 ELSE 0),
                       children |-> orphans.children
                                      + (IF child = "running" THEN 1 ELSE 0)]
        /\ call' = <<[prompt |-> prompt, options |-> options]>>
        /\ argv' = args
        /\ process' = "child"
        /\ child' = "running"
        /\ spawnErr' = "ok"
        /\ timeoutId' = "set"
        /\ timerPending' = TRUE
        /\ stdin' = PipeMessages(lines)
        /\ startPromise' = Settle("pending", "resolved")
        /\ UNCHANGED <<buffer, isKilled, signals, events, received, text,
                       killCalls, stderrLog>>

\* a timer armed by an earlier start() fires: the same callback, on the
\* fields as they are now
OrphanTimerFires ==
    /\ orphans.timers > 0
    /\ orphans' = [orphans EXCEPT !.timers = @ - 1]
    /\ IF ~isKilled
       THEN /\ isKilled' = TRUE
            /\ ProcessKill("SIGTERM")
            /\ events' = Append(events, TimeoutError)
       ELSE UNCHANGED <<isKilled, signals, events>>
    /\ UNCHANGED <<process, buffer, timeoutId, timerPending, child, spawnErr,
                   startPromise, argv, stdin, received, text, killCalls>>
    /\ UNCHANGED <<call, stderrLog>>

\* the 'close' event of a child spawned by an earlier start(): the same
\* handler, on the fields as they are now
OrphanClose ==
    /\ orphans.children > 0
    /\ orphans' = [orphans EXCEPT !.children = @ - 1]
    /\ ClearTimeout
    /\ IF Trim(buffer) # <<>>
       THEN LET done == processBuffer(buffer)
            IN  /\ buffer' = done.buffer
                /\ events' = (events \o done.emitted) \o <<CloseEvent>>
       ELSE /\ buffer' = buffer
            /\ events' = Append(events, CloseEvent)
    /\ UNCHANGED <<process, isKilled, child, spawnErr, startPromise, argv, stdin,
                   signals, received, text, killCalls>>
    /\ UNCHANGED <<call, stderrLog>>

\* One instance on which start() is called more than once, with kill(), the
\* timers and the children's output and close in any order.
RestartNext ==
    \/ Start(<<"p">>, TextOptions, "ok") /\ UNCHANGED <<adapterVars, decoderVars, peerVars>>
    \/ StartAgain(<<"p">>, TextOptions) /\ UNCHANGED <<adapterVars, decoderVars, peerVars>>
    \/ TimerFires /\ UNCHANGED <<adapterVars, decoderVars, peerVars>>
    \/ OrphanTimerFires /\ UNCHANGED <<adapterVars, decoderVars, peerVars>>
    \/ StdoutData(PeerChunk) /\ UNCHANGED <<adapterVars, decoderVars, peerVars>>
    \/ ChildClose /\ UNCHANGED <<adapterVars, decoderVars, peerVars>>
    \/ OrphanClose /\ UNCHANGED <<adapterVars, decoderVars, peerVars>>
    \/ Kill("SIGTERM") /\ UNCHANGED <<adapterVars, decoderVars, peerVars>>

SpecRestart == Init /\ [][RestartNext]_vars

\* what the child writes to stderr: a protocol line, a partial line, a line
\* end, a line that is no JSON, and bytes that are no text
StderrChunks == {<<"R", NL>>, <<"R">>, <<NL>>, <<"{", NL>>, <<LeadByte>>}

\* A spawned child that writes to stdout and to stderr in any order until it
\* closes.
StderrNext ==
    \/ Start(<<"p">>, TextOptions, "ok") /\ UNCHANGED <<adapterVars, decoderVars, peerVars>>
    \/ \E chunk \in ChunksLeft({"R", NL}) :
           StdoutData(chunk) /\ UNCHANGED <<adapterVars, decoderVars, peerVars>>
    \/ \E chunk \in StderrChunks :
           StderrData(chunk) /\ UNCHANGED <<adapterVars, decoderVars, peerVars>>
    \/ ChildClose /\ UNCHANGED <<adapterVars, decoderVars, peerVars>>

SpecStderr == Init /\ [][StderrNext]_vars

\* the event loop turns to instance j: the next handler runs with `this`
\* bound to j; no field of any instance changes
Turn(j) ==
    /\ j # self
    /\ self' = j
    /\ others' = [others EXCEPT ![self] = This, ![j] = NewManager]
    /\ process' = others[j].process
    /\ buffer' = others[j].buffer
    /\ timeoutId' = others[j].timeoutId
    /\ isKilled' = others[j].isKilled
    /\ timerPending' = others[j].timerPending
    /\ child' = others[j].child
    /\ spawnErr' = others[j].spawnErr
    /\ startPromise' = others[j].startPromise
    /\ argv' = others[j].argv
    /\ stdin' = others[j].stdin
    /\ signals' = others[j].signals
    /\ events' = others[j].events
    /\ received' = others[j].received
    /\ text' = others[j].text
    /\ killCalls' = others[j].killCalls
    /\ call' = others[j].call
    /\ stderrLog' = others[j].stderrLog
    /\ orphans' = others[j].orphans

\* Several managers alive at once (one per request in flight): the handlers
\* of the instances interleave in any order.
PeersNext ==
    \/ Start(<<"p">>, TextOptions, "ok") /\ UNCHANGED <<adapterVars, decoderVars, peerVars>>
    \/ TimerFires /\ UNCHANGED <<adapterVars, decoderVars, peerVars>>
    \/ StdoutData(PeerChunk) /\ UNCHANGED <<adapterVars, decoderVars, peerVars>>
    \/ ChildClose /\ UNCHANGED <<adapterVars, decoderVars, peerVars>>
    \/ Kill("SIGTERM") /\ UNCHANGED <<adapterVars, decoderVars, peerVars>>
    \/ \E j \in Instances : Turn(j) /\ UNCHANGED <<adapterVars, decoderVars>>

SpecPeers == Init /\ [][PeersNext]_vars

----------------------------------------------------------------------------
(* The request adapter (openai-to-cli). *)

\* A model identifier is the sequence of its "/"-separated segments:
\* "claude-code-cli/claude-opus-4" is <<"claude-code-cli", "claude-opus-4">>.
MODEL_MAP ==
    (<<"claude-opus-4">> :> "opus") @@
    (<<"claude-opus-4-6">> :> "opus") @@
    (<<"claude-sonnet-4">> :> "sonnet") @@
    (<<"claude-sonnet-4-5">> :> "sonnet") @@
    (<<"claude-haiku-4">> :> "haiku") @@
    (<<"claude-code-cli", "claude-opus-4">> :> "opus") @@
    (<<"claude-code-cli", "claude-opus-4-6">> :> "opus") @@
    (<<"claude-code-cli", "claude-sonnet-4">> :> "sonnet") @@
    (<<"claude-code-cli", "claude-sonnet-4-5">> :> "sonnet") @@
    (<<"claude-code-cli", "claude-haiku-4">> :> "haiku") @@
    (<<"claude-max", "claude-opus-4-6">> :> "opus") @@
    (<<"claude-max", "claude-sonnet-4-5">> :> "sonnet") @@
    (<<"opus">> :> "opus") @@
    (<<"sonnet">> :> "sonnet") @@
    (<<"haiku">> :> "haiku") @@
    (<<"opus-max">> :> "opus") @@
    (<<"sonnet-max">> :> "sonnet")

\* the properties every object literal inherits from Object.prototype
ObjectPrototypeNames == {"constructor", "toString", "__proto__"}

\* MODEL_MAP[model]: an own property, an inherited one, or undefined
Lookup(model) ==
    IF model \in DOMAIN MODEL_MAP THEN MODEL_MAP[model]
    ELSE IF Len(model) = 1 /\ model[1] \in ObjectPrototypeNames
    THEN "Object.prototype." \o model[1]
    ELSE "undefined"

\* model.replace(/^claude-code-cli\//, "")
StripProviderPrefix(model) ==
    IF Len(model) >= 2 /\ model[1] = "claude-code-cli" THEN Tail(model) ELSE model

\* extractModel(model)
extractModel(model) ==
    IF Lookup(model) # "undefined" THEN Lookup(model)
    ELSE LET stripped == StripProviderPrefix(model)
         IN  IF Lookup(stripped) # "undefined" THEN Lookup(stripped) ELSE "opus"

\* message content: a string, or an array of content parts
StringContent(t) == [kind |-> "string", text |-> t, parts |-> <<>>]
PartsContent(ps) == [kind |-> "parts", text |-> <<>>, parts |-> ps]
\* a content part: js is what typeof and null tests see of the array element,
\* type is the value of part.type, text is Some(t) when part.text is a string
TextPart(t) == [js |-> "object", type |-> "text", text |-> Some(t)]
ImagePart == [js |-> "object", type |-> "image_url", text |-> None]

\* content the request type does not allow, which JSON.parse may still deliver:
\* null, a number, a plain object
NullContent == [kind |-> "null", text |-> <<>>, parts |-> <<>>]
NumberContent == [kind |-> "number", text |-> <<>>, parts |-> <<>>]
ObjectContent == [kind |-> "object", text |-> <<>>, parts |-> <<>>]
\* array elements that are no content parts: null, a number, and a text part
\* whose text is not a string
NullPart == [js |-> "null", type |-> "undefined", text |-> None]
NumberPart == [js |-> "number", type |-> "undefined", text |-> None]
NonStringTextPart == [js |-> "object", type |-> "text", text |-> None]

\* String(content) of a content that is neither a string nor an array
StringOf(c) ==
    CASE c.kind = "null"   -> <<"null">>
      [] c.kind = "number" -> <<"5">>
      [] OTHER             -> <<"[object Object]">>

\* JSON.stringify(content) of a plain object
JsonStringify(c) == <<"{...}">>

RECURSIVE TextsOfParts(_)
TextsOfParts(parts) ==
    IF parts = <<>> THEN <<>>
    ELSE IF Head(parts).type = "text" /\ Head(parts).text # None
    THEN <<Head(parts).text[1]>> \o TextsOfParts(Tail(parts))
    ELSE TextsOfParts(Tail(parts))

\* extractTextContent(content)
extractTextContent(content) ==
    IF content.kind = "string" THEN content.text
    ELSE IF content.kind = "parts" THEN Join(TextsOfParts(content.parts), <<NL>>)
    ELSE StringOf(content)

\* extractTextContent throws: its filter callback reads part.type of every
\* array element, which is a TypeError on null
extractTextContentThrows(c) ==
    c.kind = "parts" /\ \E i \in 1..Len(c.parts) : c.parts[i].js = "null"

\* the filter of extractContentText: part && typeof part === "object" &&
\* part.type === "text" && typeof part.text === "string"
RECURSIVE TextsOfObjectParts(_)
TextsOfObjectParts(parts) ==
    IF parts = <<>> THEN <<>>
    ELSE IF /\ Head(parts).js = "object"
            /\ Head(parts).type = "text"
            /\ Head(parts).text # None
    THEN <<Head(parts).text[1]>> \o TextsOfObjectParts(Tail(parts))
    ELSE TextsOfObjectParts(Tail(parts))

\* extractContentText(content), of the single-prompt encoding
extractContentText(c) ==
    IF c.kind = "string" THEN c.text
    ELSE IF c.kind = "parts" THEN Join(TextsOfObjectParts(c.parts), <<>>)
    ELSE IF c.kind = "null" THEN <<>>
    ELSE IF c.kind = "object" THEN JsonStringify(c)
    ELSE StringOf(c)

\* the loop of extractMessagesContent: the system parts and the conversation
\* parts after the messages
RECURSIVE PartitionMessages(_, _, _)
PartitionMessages(messages, systemParts, conversationParts) ==
    IF messages = <<>>
    THEN [systemParts |-> systemParts, conversationParts |-> conversationParts]
    ELSE LET msg == Head(messages)
             t == extractTextContent(msg.content)
         IN  IF msg.role \in {"system", "developer"}
             THEN PartitionMessages(Tail(messages), Append(systemParts, t),
                                    conversationParts)
             ELSE IF msg.role = "user"
             THEN PartitionMessages(Tail(messages), systemParts,
                                    Append(conversationParts, t))
             ELSE IF msg.role = "assistant"
             THEN PartitionMessages(Tail(messages), systemParts,
                     Append(conversationParts,
                            <<"<previous_response>", NL>> \o t
                              \o <<NL, "</previous_response>", NL>>))
             ELSE PartitionMessages(Tail(messages), systemParts, conversationParts)

\* extractMessagesContent(messages)
extractMessagesContent(messages) ==
    LET parts == PartitionMessages(messages, <<>>, <<>>)
    IN  [systemPrompt |->
            IF Len(parts.systemParts) > 0
            THEN Some(Trim(Join(parts.systemParts, <<NL, NL>>)))
            ELSE None,
         conversationPrompt |-> Trim(Join(parts.conversationParts, <<NL>>))]

\* messagesToPrompt(messages), the deprecated one of the adapter: the system
\* prompt, when it is not empty, in a <system> marker before the conversation
messagesToPrompt(messages) ==
    LET content == extractMessagesContent(messages)
    IN  IF content.systemPrompt # None /\ content.systemPrompt[1] # <<>>
        THEN <<"<system>", NL>> \o content.systemPrompt[1]
               \o <<NL, "</system>", NL, NL>> \o content.conversationPrompt
        ELSE content.conversationPrompt

\* the loop of the single-prompt messagesToPrompt: the parts after the messages
RECURSIVE PromptParts(_)
PromptParts(messages) ==
    IF messages = <<>> THEN <<>>
    ELSE LET msg == Head(messages)
             textContent == extractContentText(msg.content)
         IN  IF msg.role = "system"
             THEN << <<"<system>", NL>> \o textContent \o <<NL, "</system>", NL>> >>
                    \o PromptParts(Tail(messages))
             ELSE IF msg.role = "user"
             THEN <<textContent>> \o PromptParts(Tail(messages))
             ELSE IF msg.role = "assistant"
             THEN << <<"<previous_response>", NL>> \o textContent
                       \o <<NL, "</previous_response>", NL>> >>
                    \o PromptParts(Tail(messages))
             ELSE PromptParts(Tail(messages))

\* messagesToPrompt(messages) of the single-prompt encoding: every message in
\* one prompt string
messagesToPrompt2(messages) == Trim(Join(PromptParts(messages), <<NL>>))

\* openaiToCli(request)
openaiToCli(req) ==
    LET content == extractMessagesContent(req.messages)
    IN  [prompt       |-> content.conversationPrompt,
         model        |-> extractModel(req.model),
         sessionId    |-> req.user,
         systemPrompt |-> content.systemPrompt]

\* the request is encoded
Encode ==
    /\ cli = <<>>
    /\ cli' = <<openaiToCli(request)>>
    /\ UNCHANGED <<request, flat, rawContent, normalized>>
    /\ UNCHANGED <<mgrVars, peerVars, decoderVars>>

\* the request's messages are flattened into the single prompt
Flatten ==
    /\ flat = <<>>
    /\ flat' = <<messagesToPrompt2(request.messages)>>
    /\ UNCHANGED <<request, cli, rawContent, normalized>>
    /\ UNCHANGED <<mgrVars, peerVars, decoderVars>>

\* the encoded request is handed to a new manager: the prompt, the model and
\* the session id of the CliInput, which holds no structured lines
Dispatch ==
    /\ cli # <<>>
    /\ Start(cli[1].prompt,
             [model |-> cli[1].model, sessionId |-> cli[1].sessionId,
              stdinMessages |-> None],
             "ok")
    /\ UNCHANGED <<adapterVars, decoderVars, peerVars>>

\* the segments model identifiers are made of
ModelSegments ==
    {"claude-code-cli", "claude-max", "claude-opus-4", "claude-opus-4-6",
     "claude-sonnet-4", "claude-sonnet-4-5", "claude-haiku-4", "opus", "sonnet",
     "haiku", "opus-max", "sonnet-max", "gpt-4", "constructor", "toString", ""}

ModelNames == SeqsUpTo(ModelSegments, MaxSegments) \ {<<>>}

Roles == {"system", "developer", "user", "assistant"}

Contents ==
    {StringContent(<<>>), StringContent(<<"a">>), StringContent(<<" ">>),
     PartsContent(<<TextPart(<<"a">>)>>),
     PartsContent(<<TextPart(<<"a">>), TextPart(<<"b">>)>>),
     PartsContent(<<ImagePart>>),
     PartsContent(<<TextPart(<<"a">>), ImagePart>>)}

Messages == [role : Roles, content : Contents]

UserSays(t) == [role |-> "user", content |-> StringContent(t)]

\* the requests explored: every model identifier, every message list, and
\* the user field absent, empty and set
Requests ==
    [model : ModelNames, messages : {<<UserSays(<<"a">>)>>}, user : {None}]
      \cup [model : {<<"sonnet">>}, messages : SeqsUpTo(Messages, MaxMessages),
            user : {None}]
      \cup [model : {<<"sonnet">>}, messages : {<<UserSays(<<"a">>)>>},
            user : {Some(<<>>), Some(<<"s">>)}]

EncodeInit ==
    /\ MgrInit
    /\ PeersInit
    /\ request \in Requests
    /\ AdapterIdle
    /\ DecoderInit

EncodeNext == Encode \/ Dispatch

SpecEncode == EncodeInit /\ [][EncodeNext]_vars

\* the outcome of a call: it returned a string, or it threw
Returned(v) == [threw |-> FALSE, value |-> v]
Threw == [threw |-> TRUE, value |-> <<>>]

\* extractTextContent is called with the content
NormalizeText ==
    /\ normalized.extractTextContent = <<>>
    /\ normalized' =
         [normalized EXCEPT !.extractTextContent =
             <<IF extractTextContentThrows(rawContent) THEN Threw
               ELSE Returned(extractTextContent(rawContent))>>]
    /\ UNCHANGED <<request, cli, flat, rawContent>>
    /\ UNCHANGED <<mgrVars, peerVars, decoderVars>>

\* extractContentText is called with the content
NormalizeContentText ==
    /\ normalized.extractContentText = <<>>
    /\ normalized' =
         [normalized EXCEPT !.extractContentText =
             <<Returned(extractContentText(rawContent))>>]
    /\ UNCHANGED <<request, cli, flat, rawContent>>
    /\ UNCHANGED <<mgrVars, peerVars, decoderVars>>

\* the content values the normalizers are given: strings, values that are
\* neither string nor array, and arrays of parts and of other elements
PartShapes == {TextPart(<<"a">>), ImagePart, NullPart, NumberPart, NonStringTextPart}
ContentShapes ==
    {StringContent(<<>>), StringContent(<<"a">>), NullContent, NumberContent,
     ObjectContent}
      \cup {PartsContent(ps) : ps \in SeqsUpTo(PartShapes, MaxParts)}

NormalizeInit ==
    /\ MgrInit
    /\ PeersInit
    /\ request = NoRequest
    /\ cli = <<>>
    /\ flat = <<>>
    /\ rawContent \in ContentShapes
    /\ normalized = [extractTextContent |-> <<>>, extractContentText |-> <<>>]
    /\ DecoderInit

NormalizeNext == NormalizeText \/ NormalizeContentText

SpecNormalize == NormalizeInit /\ [][NormalizeNext]_vars

\* Both encodings of the messages of one request.
MessagesNext == Encode \/ Flatten

SpecMessages == EncodeInit /\ [][MessagesNext]_vars

----------------------------------------------------------------------------
(* The response adapter (cli-to-openai). *)

\* A JavaScript value as the adapter's tests see it: t is what typeof, the
\* null tests and Array.isArray tell of it, s its characters when it is a
\* string, items its elements when it is an array.
Str(s) == [t |-> "string", s |-> s, items |-> <<>>]
JsNull == [t |-> "null", s |-> <<>>, items |-> <<>>]
JsUndefined == [t |-> "undefined", s |-> <<>>, items |-> <<>>]
JsArray(items) == [t |-> "array", s |-> <<>>, items |-> items]
JsObject == [t |-> "object", s |-> <<>>, items |-> <<>>]
JsNumber == [t |-> "number", s |-> <<>>, items |-> <<>>]
JsBoolean == [t |-> "boolean", s |-> <<>>, items |-> <<>>]

\* the content blocks of an assistant message
TextBlock(t) == [js |-> "object", type |-> "text", text |-> Some(t)]
ToolUseBlock == [js |-> "object", type |-> "tool_use", text |-> None]

\* the messages of the CLI the adapter decodes
ContentDelta(t) ==
    [type |-> "stream_event", text |-> t, content |-> <<>>, model |-> None,
     stop_reason |-> None, result |-> JsUndefined, modelUsage |-> None,
     usage |-> None]
AssistantMessage(blocks, model, stop) ==
    [type |-> "assistant", text |-> <<>>, content |-> blocks, model |-> model,
     stop_reason |-> stop, result |-> JsUndefined, modelUsage |-> None,
     usage |-> None]
ResultMessage(result, modelUsage, usage) ==
    [type |-> "result", text |-> <<>>, content |-> <<>>, model |-> None,
     stop_reason |-> None, result |-> result, modelUsage |-> modelUsage,
     usage |-> usage]

\* extractTextContent(message) of cli-to-openai: the texts of the text blocks,
\* joined by the empty string; join writes a missing text as the empty string
RECURSIVE TextsOfBlocks(_)
TextsOfBlocks(blocks) ==
    IF blocks = <<>> THEN <<>>
    ELSE IF Head(blocks).type = "text"
    THEN <<IF Head(blocks).text # None THEN Head(blocks).text[1] ELSE <<>>>>
           \o TextsOfBlocks(Tail(blocks))
    ELSE TextsOfBlocks(Tail(blocks))

extractTextContentCli(message) == Str(Join(TextsOfBlocks(message.content), <<>>))

\* a model name is the sequence of its "-"-separated words, and
\* model.includes(word) is that the word is one of them
Includes(model, word) == \E i \in 1..Len(model) : model[i] = word

\* normalizeModelName(model), model None for undefined
normalizeModelName(model) ==
    IF model = None \/ model[1] = <<>> THEN <<"claude", "sonnet", "4">>
    ELSE IF Includes(model[1], "opus") THEN <<"claude", "opus", "4">>
    ELSE IF Includes(model[1], "sonnet") THEN <<"claude", "sonnet", "4">>
    ELSE IF Includes(model[1], "haiku") THEN <<"claude", "haiku", "4">>
    ELSE model[1]

\* an outbound chunk: delta.role and delta.content are optional
Chunk(requestId, model, role, deltaContent, finish) ==
    [id |-> <<"chatcmpl-", requestId>>, object |-> "chat.completion.chunk",
     model |-> model, role |-> role, content |-> deltaContent,
     finish_reason |-> finish]

\* cliToOpenaiChunk with a finish_reason that is always null
cliToOpenaiChunkNoStop(message, requestId, first) ==
    Chunk(requestId, normalizeModelName(message.model),
          IF first THEN Some("assistant") ELSE None,
          Some(extractTextContentCli(message)),
          "null")

\* cliToOpenaiChunk that tags the role on every chunk
cliToOpenaiChunkAlwaysRole(message, requestId, first) ==
    Chunk(requestId, normalizeModelName(message.model),
          Some("assistant"),
          Some(extractTextContentCli(message)),
          IF message.stop_reason # None THEN "stop" ELSE "null")

\* cliToOpenaiChunk(message, requestId, isFirst)
cliToOpenaiChunk(message, requestId, first) ==
    Chunk(requestId, normalizeModelName(message.model),
          IF first THEN Some("assistant") ELSE None,
          Some(extractTextContentCli(message)),
          IF message.stop_reason # None THEN "stop" ELSE "null")

\* createDoneChunk(requestId, model)
createDoneChunk(requestId, model) ==
    Chunk(requestId, normalizeModelName(model), None, None, "stop")

\* the filter of ensureString: item && typeof item === "object" &&
\* item.type === "text" && typeof item.text === "string"
RECURSIVE TextsOfItems(_)
TextsOfItems(items) ==
    IF items = <<>> THEN <<>>
    ELSE IF /\ Head(items).js = "object"
            /\ Head(items).type = "text"
            /\ Head(items).text # None
    THEN <<Head(items).text[1]>> \o TextsOfItems(Tail(items))
    ELSE TextsOfItems(Tail(items))

\* ensureString that trims a string
ensureStringTrimmed(value) ==
    IF value.t = "string" THEN Str(Trim(value.s))
    ELSE IF value.t \in {"null", "undefined"} THEN Str(<<>>)
    ELSE IF value.t = "array" THEN Str(Join(TextsOfItems(value.items), <<>>))
    ELSE IF value.t = "object" THEN Str(<<"{...}">>)
    ELSE IF value.t = "number" THEN Str(<<"5">>)
    ELSE Str(<<"true">>)

\* ensureString that hands every value on as it is
ensureStringPassThrough(value) == value

\* ensureString(value)
ensureString(value) ==
    IF value.t = "string" THEN value
    ELSE IF value.t \in {"null", "undefined"} THEN Str(<<>>)
    ELSE IF value.t = "array" THEN Str(Join(TextsOfItems(value.items), <<>>))
    ELSE IF value.t = "object" THEN Str(<<"{...}">>)
    ELSE IF value.t = "number" THEN Str(<<"5">>)
    ELSE Str(<<"true">>)

\* result.usage?.input_tokens || 0, and the same of output_tokens
TokensOf(usage, field) == IF usage # None THEN usage[1][field] ELSE 0

\* cliResultToOpenai(result, requestId); modelUsage is None, or the name of
\* its first key
cliResultToOpenai(result, requestId) ==
    [id |-> <<"chatcmpl-", requestId>>, object |-> "chat.completion",
     model |-> normalizeModelName(IF result.modelUsage # None
                                  THEN result.modelUsage
                                  ELSE Some(<<"claude", "sonnet", "4">>)),
     role |-> "assistant",
     content |-> ensureString(result.result),
     finish_reason |-> "stop",
     usage |-> [prompt_tokens |-> TokensOf(result.usage, "input_tokens"),
                completion_tokens |-> TokensOf(result.usage, "output_tokens"),
                total_tokens |-> TokensOf(result.usage, "input_tokens")
                                   + TokensOf(result.usage, "output_tokens")]]

RequestId == "r1"

\* the streaming handler's chunk for a content delta: the fragment as the
\* delta, the role on the first chunk of the response, no stop signal
DeltaChunk(message, requestId, first) ==
    Chunk(requestId, normalizeModelName(None),
          IF first THEN Some("assistant") ELSE None,
          Some(Str(message.text)),
          "null")

\* the decoder handles a content delta event of the manager
OnContentDelta(message) ==
    /\ response = <<>>
    /\ Len(handled) < MaxEvents
    /\ handled' = Append(handled, message)
    /\ chunks' = Append(chunks, DeltaChunk(message, RequestId, isFirst))
    /\ isFirst' = FALSE
    /\ UNCHANGED response

\* the decoder handles an assistant event of the manager
OnAssistant(message) ==
    /\ response = <<>>
    /\ Len(handled) < MaxEvents
    /\ handled' = Append(handled, message)
    /\ chunks' = Append(chunks, cliToOpenaiChunk(message, RequestId, isFirst))
    /\ isFirst' = FALSE
    /\ UNCHANGED response

\* the decoder handles the result event of the manager, which ends the
\* response: it is the response of a call that does not stream, and the
\* done chunk closes the chunks of a call that streams
OnResult(message) ==
    /\ response = <<>>
    /\ Len(handled) < MaxEvents
    /\ handled' = Append(handled, message)
    /\ response' = <<cliResultToOpenai(message, RequestId)>>
    /\ chunks' = Append(chunks, createDoneChunk(RequestId, message.modelUsage))
    /\ UNCHANGED isFirst

\* the events handed to the decoder
Deltas == {ContentDelta(<<"a">>), ContentDelta(<<"b">>)}
ModelIds == {None, Some(<<"claude", "opus", "4", "6">>)}
Assistants ==
    {AssistantMessage(blocks, Some(<<"claude", "opus", "4", "6">>), stop) :
        blocks \in {<<TextBlock(<<"a">>)>>,
                    <<TextBlock(<<"a">>), ToolUseBlock, TextBlock(<<"b">>)>>},
        stop \in {None, Some("end_turn")}}
ResultValues ==
    {Str(<<>>), Str(<<"p", "o", "n", "g">>), JsNull, JsUndefined,
     JsArray(<<TextBlock(<<"a">>), TextBlock(<<"b">>)>>),
     JsArray(<<NullPart, NumberPart, NonStringTextPart, TextBlock(<<"a">>)>>),
     JsObject, JsNumber, JsBoolean}
Usages == {None, Some([input_tokens |-> 3, output_tokens |-> 4])}
Results ==
    {ResultMessage(value, Some(<<"claude", "opus", "4", "6">>), None) :
        value \in ResultValues}
      \cup {ResultMessage(Str(<<"a">>), model, usage) :
               model \in ModelIds, usage \in Usages}

DecodeNext ==
    \/ \E message \in Deltas :
           OnContentDelta(message) /\ UNCHANGED <<mgrVars, peerVars, adapterVars>>
    \/ \E message \in Assistants :
           OnAssistant(message) /\ UNCHANGED <<mgrVars, peerVars, adapterVars>>
    \/ \E message \in Results :
           OnResult(message) /\ UNCHANGED <<mgrVars, peerVars, adapterVars>>

SpecDecode == Init /\ [][DecodeNext]_vars

\* One request of a single user message that holds text only, from the
\* request to the response: it is encoded, the child is started, and the
\* result event the manager emits for the child's answer is decoded.
\* the texts: empty, plain, with outer blanks, of two lines, and a fenced
\* block of JSON (the three backquotes of a fence are one symbol)
RoundTexts ==
    {<<>>, <<"a">>, <<"p", "o", "n", "g">>, <<" ", "a", " ">>, <<"a", NL, "b">>,
     <<"code-fence", NL, "{", "}", NL, "code-fence">>}
RoundRequests ==
    {[model |-> <<"sonnet">>, messages |-> <<[role |-> "user", content |-> c]>>,
      user |-> None] :
        c \in {StringContent(t) : t \in RoundTexts}
                \cup {PartsContent(<<TextPart(t)>>) : t \in RoundTexts}}
RoundResults ==
    {ResultMessage(Str(t), model, usage) :
        t \in RoundTexts, model \in ModelIds, usage \in Usages}

RoundInit ==
    /\ MgrInit
    /\ PeersInit
    /\ request \in RoundRequests
    /\ AdapterIdle
    /\ DecoderInit

RoundNext ==
    \/ Encode
    \/ Dispatch
    \/ \E message \in RoundResults :
           /\ child = "running"
           /\ OnResult(message)
           /\ UNCHANGED <<mgrVars, peerVars, adapterVars>>

SpecRound == RoundInit /\ [][RoundNext]_vars

----------------------------------------------------------------------------
(* The properties, and the vocabulary they are stated in. *)

RECURSIVE SelectEvents(_, _)
SelectEvents(evs, names) ==
    IF evs = <<>> THEN <<>>
    ELSE IF Head(evs)[1] \in names
    THEN <<Head(evs)>> \o SelectEvents(Tail(evs), names)
    ELSE SelectEvents(Tail(evs), names)

OutputNames == {"message", "content_delta", "assistant", "result", "raw"}
ClassifiedNames == {"content_delta", "assistant", "result", "raw"}
PrimaryNames == {"message", "raw"}

\* the events emitted for the child's output
OutputEvents == SelectEvents(events, OutputNames)

TimeoutErrors == Len(SelectEvents(events, {"error"}))

\* the trimmed non-empty ones among lines
RECURSIVE NonBlank(_)
NonBlank(lines) ==
    IF lines = <<>> THEN <<>>
    ELSE IF Trim(Head(lines)) = <<>> THEN NonBlank(Tail(lines))
    ELSE <<Trim(Head(lines))>> \o NonBlank(Tail(lines))

\* the lines of the text received: those a newline ended, and the rest
TextLines == Split(text, NL)
CompleteLines == NonBlank(SubSeq(TextLines, 1, Len(TextLines) - 1))
Unterminated == TextLines[Len(TextLines)]

\* the event that reports a line: the parsed message, or the raw line
PrimaryOf(line) ==
    IF JsonParses(line) THEN <<"message", JsonParse(line)>> ELSE <<"raw", line>>

\* the event name for a message type that has one
ClassName(type) ==
    CASE type = "stream_event" -> "content_delta"
      [] type = "assistant"    -> "assistant"
      [] type = "result"       -> "result"
      [] OTHER                 -> "none"

\* the events one chunk holding all of bytes makes the manager emit
SingleChunkEvents(bytes) ==
    IF bytes = <<>> THEN <<>> ELSE processBuffer(Utf8Decode(bytes)).emitted

(* C1: however the stdout bytes are cut into chunks, the output events        *)
(* emitted are those emitted when the same bytes arrive as one chunk.         *)
C1_ChunkIndependence ==
    child = "running" => OutputEvents = SingleChunkEvents(received)

(* C2: when the child has closed, every non-empty line of its output has      *)
(* been reported, the text after the last newline included, and the close     *)
(* event comes last.                                                          *)
C2_FlushedAtClose ==
    (child = "closed" /\ Trim(Unterminated) # <<>>) =>
        /\ events[Len(events)] = CloseEvent
        /\ SelectEvents(events, PrimaryNames) =
             [i \in 1..Len(CompleteLines) |-> PrimaryOf(CompleteLines[i])]
               \o <<PrimaryOf(Trim(Unterminated))>>

(* C3: a timeout error is emitted at most once; when it has been emitted      *)
(* exactly one signal, SIGTERM, was sent, the handle is marked killed and     *)
(* the deadline timer is no longer armed.                                     *)
C3_TimeoutOnce ==
    /\ TimeoutErrors <= 1
    /\ TimeoutErrors = 1 =>
         (signals = <<"SIGTERM">> /\ isKilled /\ ~timerPending)

\* the timer fired, and a kill() came afterwards
C3_Witness ==
    TimeoutErrors = 1 /\ killCalls >= 1 /\ isKilled /\ child = "running"

(* C4: once the child's spawn error has been delivered, the promise of        *)
(* start() is rejected: with the 'Claude CLI not found' error for ENOENT,     *)
(* with the spawn error otherwise; it is never resolved.                      *)
C4_SpawnErrorRejects ==
    (child \in {"failed", "closed"} /\ spawnErr \in AsyncSpawnErrors) =>
        startPromise =
            IF spawnErr = "ENOENT" THEN NotFoundError ELSE SpawnError(spawnErr)

\* a step that is a call of kill()
KillStep == killCalls' = killCalls + 1

\* the child ran and has exited
Exited == child = "closed" /\ spawnErr = "ok"

(* C5 as stated: kill() on a killed or an exited process sends no signal      *)
(* and changes no field of the manager.                                       *)
C5_Original ==
    [][(KillStep /\ (isKilled \/ Exited)) =>
          UNCHANGED <<signals, isKilled, timeoutId, timerPending, buffer>>]_vars

(* C5 amended: kill() on a killed process sends no signal and changes no      *)
(* field; kill() on a process that exited without being killed sends no       *)
(* signal and leaves timer and buffer as they are, but sets the killed flag.  *)
C5_KillIdempotent ==
    [][KillStep =>
          /\ isKilled =>
               UNCHANGED <<signals, isKilled, timeoutId, timerPending, buffer,
                           events, process>>
          /\ (child = "closed" /\ ~isKilled) =>
               /\ UNCHANGED <<signals, timeoutId, timerPending, buffer, events>>
               /\ isKilled']_vars

\* kill() was called after the child exited, and then once more
C5_Witness ==
    killCalls = 2 /\ isKilled /\ Exited /\ signals = <<>> /\ TimeoutErrors = 0

(* C6: at most one signal is ever sent, the killed flag is set once and       *)
(* never reset, and once the handle is killed without a timeout error the     *)
(* timer is cancelled and no timeout error follows.                           *)
C6_KillOnce ==
    /\ [](Len(signals) <= 1)
    /\ []((isKilled /\ TimeoutErrors = 0) => ~timerPending)
    /\ [][(isKilled => isKilled')
            /\ ((isKilled /\ TimeoutErrors = 0) => TimeoutErrors' = 0)
            /\ (Len(signals) = 1 => signals' = signals)]_vars

\* two kill() calls raced with the timer and the close: one signal in all
C6_Witness ==
    killCalls = 2 /\ Len(signals) = 1 /\ child = "closed" /\ TimeoutErrors = 0

(* C7 as stated: every complete non-empty line has exactly one event among    *)
(* content delta, assistant, result and raw, in the order of the lines.       *)
C7_Original ==
    LET classified == SelectEvents(events, ClassifiedNames)
    IN  /\ Len(classified) = Len(CompleteLines)
        /\ \A i \in 1..Len(classified) :
              classified[i][2] = PrimaryOf(CompleteLines[i])[2]

(* C7 amended: every complete non-empty line has exactly one primary event,   *)
(* message when it parses as JSON and raw when not, in the order of the       *)
(* lines; a content delta, assistant or result event follows the message      *)
(* event of a line of that type at once and occurs nowhere else, and a JSON   *)
(* line of another type has its message event only.                           *)
C7_OneEventPerLine ==
    /\ SelectEvents(events, PrimaryNames) =
         [i \in 1..Len(CompleteLines) |-> PrimaryOf(CompleteLines[i])]
    /\ \A j \in 1..Len(events) :
          /\ events[j][1] \in {"content_delta", "assistant", "result"} =>
               /\ j > 1
               /\ events[j - 1] = <<"message", events[j][2]>>
               /\ ClassName(MessageType(events[j][2])) = events[j][1]
          /\ (events[j][1] = "message"
                /\ ClassName(MessageType(events[j][2])) # "none") =>
               /\ j < Len(events)
               /\ events[j + 1] =
                    <<ClassName(MessageType(events[j][2])), events[j][2]>>

\* a system line and then a result line
C7_Witness ==
    /\ text = <<"M", NL, "R", NL>>
    /\ events = << <<"message", <<"system">>>>, <<"message", <<"result">>>>,
                   <<"result", <<"result">>>> >>

\* the alias table documents an alias for the identifier
Documented(model) == model \in DOMAIN MODEL_MAP
ClaudeModels == {"opus", "sonnet", "haiku"}

(* C8: the encoded model is the documented alias for every identifier of     *)
(* the table and opus for every other string, and is always one of opus,     *)
(* sonnet, haiku.                                                             *)
C8_ExtractModelTotal ==
    cli # <<>> =>
        /\ cli[1].model \in ClaudeModels
        /\ Documented(request.model) => cli[1].model = MODEL_MAP[request.model]
        /\ (~Documented(request.model)
              /\ ~Documented(StripProviderPrefix(request.model))) =>
             cli[1].model = "opus"

ProviderPrefixes == {"claude-code-cli", "claude-max"}

(* C9: an identifier made of a provider prefix of the table and an            *)
(* un-prefixed key of the table resolves to what the key resolves to.         *)
C9_PrefixStripped ==
    (/\ cli # <<>>
     /\ Len(request.model) = 2
     /\ request.model[1] \in ProviderPrefixes
     /\ Documented(Tail(request.model))) =>
        cli[1].model = MODEL_MAP[Tail(request.model)]

HasImage(req) ==
    \E i \in 1..Len(req.messages) :
        \E j \in 1..Len(req.messages[i].content.parts) :
            req.messages[i].content.parts[j].type = "image_url"

StreamInputFlag == \E i \in 1..Len(argv) : argv[i] = Arg("--input-format")

(* C10: a request without an image part is started in text-argument mode      *)
(* (no stream-input flag, nothing written to stdin, the prompt, when it is    *)
(* not empty, an argument), a request with an image part in stream-messages   *)
(* mode (the stream-input flag, and lines written to stdin).                  *)
C10_ModeByImage ==
    (cli # <<>> /\ startPromise = "resolved") =>
        IF HasImage(request)
        THEN StreamInputFlag /\ stdin.written # <<>>
        ELSE /\ ~StreamInputFlag
             /\ stdin.written = <<>>
             /\ cli[1].prompt # <<>> =>
                  \E i \in 1..Len(argv) : argv[i] = cli[1].prompt

\* the request holds a system or developer message whose text is not empty
HasSystemText(req) ==
    LET content == extractMessagesContent(req.messages)
    IN  content.systemPrompt # None /\ content.systemPrompt[1] # <<>>

\* the request was encoded and its child was started
Dispatched == cli # <<>> /\ startPromise = "resolved"

(* C11: for a request without images that holds system or developer text,     *)
(* the prompt argument handed to the child is the conversation text with     *)
(* the system text before it inside a <system> marker.                        *)
C11_SystemInPrompt ==
    (Dispatched /\ ~HasImage(request) /\ HasSystemText(request)) =>
        \E i \in 1..Len(argv) : argv[i] = messagesToPrompt(request.messages)

\* the texts of the messages whose role is one of roles, in message order
RECURSIVE TextsByRole(_, _)
TextsByRole(messages, roles) ==
    IF messages = <<>> THEN <<>>
    ELSE IF Head(messages).role \in roles
    THEN <<extractTextContent(Head(messages).content)>>
           \o TextsByRole(Tail(messages), roles)
    ELSE TextsByRole(Tail(messages), roles)

\* the conversation entries of the user and assistant messages, in message
\* order: the text, an assistant's inside a <previous_response> marker
RECURSIVE ConversationEntries(_)
ConversationEntries(messages) ==
    IF messages = <<>> THEN <<>>
    ELSE LET t == extractTextContent(Head(messages).content)
         IN  IF Head(messages).role = "user"
             THEN <<t>> \o ConversationEntries(Tail(messages))
             ELSE IF Head(messages).role = "assistant"
             THEN << <<"<previous_response>", NL>> \o t
                       \o <<NL, "</previous_response>", NL>> >>
                    \o ConversationEntries(Tail(messages))
             ELSE ConversationEntries(Tail(messages))

\* sub occurs in s
Occurs(sub, s) ==
    \E i \in 0..(Len(s) - Len(sub)) : SubSeq(s, i + 1, i + Len(sub)) = sub

(* C12: neither encoding of a message list drops a message.  The CLI input    *)
(* holds the texts of the system and developer messages joined by a blank    *)
(* line as its system prompt, and the user texts and marked assistant texts  *)
(* in message order as its prompt (both up to outer white space); the single *)
(* prompt holds the text of every message.                                    *)
C12_NoMessageDropped ==
    /\ cli # <<>> =>
         /\ cli[1].systemPrompt =
              IF TextsByRole(request.messages, {"system", "developer"}) = <<>>
              THEN None
              ELSE Some(Trim(Join(TextsByRole(request.messages,
                                              {"system", "developer"}),
                                  <<NL, NL>>)))
         /\ cli[1].prompt = Trim(Join(ConversationEntries(request.messages), <<NL>>))
    /\ flat # <<>> =>
         \A i \in 1..Len(request.messages) :
             Occurs(Trim(extractContentText(request.messages[i].content)), flat[1])

(* C13: whatever the result field of a result event is (a string, null,       *)
(* undefined, an array, an object, a number, a boolean), the content of the  *)
(* outbound response is a string; the content of the chunk of every          *)
(* assistant event is a string.                                               *)
C13_ContentIsString ==
    /\ response # <<>> => response[1].content.t = "string"
    /\ \A i \in 1..Len(chunks) :
          chunks[i].content # None => chunks[i].content[1].t = "string"
    /\ \A i \in 1..Len(handled) :
          handled[i].type = "assistant" =>
              /\ chunks[i].content # None
              /\ chunks[i].content[1].t = "string"
    /\ response # <<>> =>
          /\ handled[Len(handled)].result.t = "string" =>
                response[1].content = handled[Len(handled)].result
          /\ handled[Len(handled)].result.t \in {"null", "undefined"} =>
                response[1].content = Str(<<>>)

\* an assistant event with a tool-use block was decoded, and then a result
\* whose result field is an array with elements that are no text blocks
C13_Witness ==
    /\ Len(handled) = 2
    /\ handled[1].type = "assistant" /\ Len(handled[1].content) = 3
    /\ chunks[1].content = Some(Str(<<"a", "b">>))
    /\ handled[2].result.t = "array" /\ Len(handled[2].result.items) = 4
    /\ response # <<>> /\ response[1].content = Str(<<"a">>)

\* the events handled are content deltas and then one assistant message that
\* carries a stop reason
DeltasThenFinal ==
    /\ handled # <<>>
    /\ handled[Len(handled)].type = "assistant"
    /\ handled[Len(handled)].stop_reason # None
    /\ \A i \in 1..(Len(handled) - 1) : handled[i].type = "stream_event"

(* C14: n content deltas and then one final assistant message with a stop     *)
(* reason make exactly n + 1 chunks, the i-th chunk from the i-th event;     *)
(* the last chunk has finish_reason "stop" and no earlier one has.            *)
C14_ChunkPerEvent ==
    DeltasThenFinal =>
        /\ Len(chunks) = Len(handled)
        /\ \A i \in 1..(Len(handled) - 1) :
              /\ chunks[i].content = Some(Str(handled[i].text))
              /\ chunks[i].finish_reason = "null"
        /\ chunks[Len(chunks)].content =
              Some(Str(Join(TextsOfBlocks(handled[Len(handled)].content), <<>>)))
        /\ chunks[Len(chunks)].finish_reason = "stop"

\* two deltas, b and then a, and the final assistant message: three chunks
C14_Witness ==
    /\ DeltasThenFinal
    /\ Len(handled) = 3
    /\ handled[1].text = <<"b">> /\ handled[2].text = <<"a">>
    /\ Len(chunks) = 3
    /\ chunks[1].role = Some("assistant")
    /\ chunks[3].finish_reason = "stop"

(* C15: the chunk built while isFirst holds, the first of the response,       *)
(* has the role assistant and no other chunk, the done chunk included, has   *)
(* a role; the chunk of an assistant event has finish_reason "stop" when the *)
(* event carries a stop reason and null when it does not.                     *)
C15_RoleOnFirstOnly ==
    /\ [][Len(chunks') = Len(chunks) + 1 =>
            LET chunk == chunks'[Len(chunks')]
            IN  IF handled'[Len(handled')].type = "result"
                THEN chunk.role = None /\ chunk.content = None
                ELSE chunk.role = IF isFirst THEN Some("assistant") ELSE None]_vars
    /\ [](\A i \in 2..Len(chunks) : chunks[i].role = None)
    /\ [](\A i \in 1..Len(handled) :
             handled[i].type = "assistant" =>
                 chunks[i].finish_reason =
                     IF handled[i].stop_reason # None THEN "stop" ELSE "null")

\* an assistant message without a stop reason, one with a stop reason, and
\* the done chunk
C15_Witness ==
    /\ Len(chunks) = 3
    /\ handled[1].type = "assistant" /\ handled[1].stop_reason = None
    /\ handled[2].type = "assistant" /\ handled[2].stop_reason # None
    /\ handled[3].type = "result"
    /\ chunks[1].role = Some("assistant") /\ chunks[1].finish_reason = "null"
    /\ chunks[2].role = None /\ chunks[2].finish_reason = "stop"
    /\ chunks[3].role = None /\ chunks[3].content = None

\* the flags of the CLI that take a value
ValueFlags ==
    {Arg("--output-format"), Arg("--model"), Arg("--tools"),
     Arg("--setting-sources"), Arg("--system-prompt"), Arg("--input-format"),
     Arg("--session-id")}
\* the flags that take none
PlainFlags ==
    {Arg("--print"), Arg("--verbose"), Arg("--include-partial-messages"),
     Arg("--no-session-persistence"), Arg("--disable-slash-commands")}

\* the i-th element of the argument vector is a positional argument: no
\* flag, and not the value of the flag before it
Positional(i) ==
    /\ argv[i] \notin (ValueFlags \cup PlainFlags)
    /\ i > 1 => argv[i - 1] \notin ValueFlags

\* the prompt reaches the child as an argument
PromptIsArgument == \E i \in 1..Len(argv) : Positional(i) /\ argv[i] = call[1].prompt

\* the lines handed to the call, or none
LinesOfCall ==
    IF call[1].options.stdinMessages = None THEN <<>>
    ELSE call[1].options.stdinMessages[1]

\* the two input encodings as the child sees them
TextEncoding == PromptIsArgument /\ stdin.written = <<>> /\ ~StreamInputFlag
StreamEncoding ==
    /\ stdin.written # <<>>
    /\ stdin.written = [i \in 1..Len(LinesOfCall) |-> LinesOfCall[i] \o <<NL>>]
    /\ StreamInputFlag
    /\ ~PromptIsArgument

(* C16: once start() has spawned the child, exactly one of the two input      *)
(* encodings has reached it: the prompt as an argument and nothing on stdin, *)
(* or the structured lines on stdin with the stream-input flag and no prompt *)
(* argument; never both, never neither.                                       *)
C16_ExactlyOneEncoding ==
    (call # <<>> /\ process = "child") =>
        /\ TextEncoding \/ StreamEncoding
        /\ ~(TextEncoding /\ StreamEncoding)

\* a step in which the manager handles a stdout chunk
DataStep == received' # received

(* C17: a stdout line that is no JSON is reported by a raw event and every    *)
(* complete line, those after it included, is reported in order; handling a  *)
(* chunk raises no error event, sends no signal, and leaves the killed flag, *)
(* the child, the timer and the promise of start() as they are.               *)
C17_RawNotFatal ==
    /\ [](SelectEvents(events, PrimaryNames) =
            [i \in 1..Len(CompleteLines) |-> PrimaryOf(CompleteLines[i])])
    /\ [][DataStep =>
            /\ UNCHANGED <<isKilled, signals, child, process, startPromise,
                           timeoutId, timerPending>>
            /\ SelectEvents(events', {"error", "close"}) =
                 SelectEvents(events, {"error", "close"})]_vars

\* a line that is no JSON and then a result line: both are reported, and
\* the child runs on
C17_Witness ==
    /\ received = <<LeadByte, NL, "R", NL>>
    /\ buffer = <<>>
    /\ events = << <<"raw", <<Replacement>>>>, <<"message", <<"result">>>>,
                   <<"result", <<"result">>>> >>
    /\ child = "running" /\ ~isKilled /\ signals = <<>>

\* the content is none of the shapes the request type allows
Unexpected(c) ==
    \/ c.kind \in {"null", "number", "object"}
    \/ \E i \in 1..Len(c.parts) :
          c.parts[i] \in {NullPart, NumberPart, NonStringTextPart}

(* C18: for content of an unexpected shape (null, a number, an object, an     *)
(* array with null or non-object elements, a text part whose text is no      *)
(* string) each request-side normalizer returns a string and does not throw. *)
C18_NormalizersTotal ==
    Unexpected(rawContent) =>
        /\ normalized.extractTextContent # <<>> =>
              ~normalized.extractTextContent[1].threw
        /\ normalized.extractContentText # <<>> =>
              ~normalized.extractContentText[1].threw

\* an error was raised: the timeout error was emitted, or the spawn failed
\* (the child's 'error' event was delivered, or spawn() threw)
ErrorRaised ==
    \/ TimeoutErrors >= 1
    \/ child = "failed"
    \/ spawnErr \in AsyncSpawnErrors /\ child = "closed"
    \/ startPromise \notin {"none", "pending", "resolved"}

\* the state of the manager's life, read off its fields; Closing is the
\* inside of the close handler
LifeState ==
    IF ErrorRaised THEN "Errored"
    ELSE CASE child = "none"    -> "Idle"
           [] child = "failing" -> "Spawning"
           [] child = "running" -> "Running"
           [] OTHER             -> "Closed"

\* the place of a state in Idle, Spawning, Running, Closed
Stage(state) ==
    CASE state = "Idle"     -> 0
      [] state = "Spawning" -> 1
      [] state = "Running"  -> 2
      [] OTHER              -> 3

(* C19: the manager's life only moves forward along Idle, Spawning, Running,  *)
(* Closing, Closed; Errored is entered from Spawning or Running only (from   *)
(* Idle within the start() call whose spawn throws); once an error has been  *)
(* raised the manager stays Errored and emits no further output event.       *)
C19_ErroredAbsorbing ==
    [][/\ (LifeState # "Errored" /\ LifeState' # "Errored") =>
              Stage(LifeState) <= Stage(LifeState')
       /\ (LifeState # "Errored" /\ LifeState' = "Errored") =>
              \/ LifeState \in {"Spawning", "Running"}
              \/ LifeState = "Idle" /\ call' # call
       /\ LifeState = "Errored" =>
              /\ LifeState' = "Errored"
              /\ OutputEvents' = OutputEvents]_vars

\* the text of the request's single user message
UserText == extractTextContent(request.messages[1].content)

(* C20: when a request of a single text-only user message with text t is      *)
(* encoded and a result event whose result field is t is decoded, the        *)
(* content of the response is t and its finish_reason is "stop".              *)
C20_RoundTrip ==
    (response # <<>> /\ handled[1].result = Str(UserText)) =>
        /\ response[1].content = Str(UserText)
        /\ response[1].role = "assistant"
        /\ response[1].finish_reason = "stop"

\* the spec's case: pong
C20_Witness ==
    /\ request.messages = <<UserSays(<<"p", "o", "n", "g">>)>>
    /\ cli # <<>> /\ cli[1].prompt = <<"p", "o", "n", "g">>
    /\ \E i \in 1..Len(argv) : argv[i] = <<"p", "o", "n", "g">>
    /\ response # <<>>
    /\ handled[1].result = Str(<<"p", "o", "n", "g">>)
    /\ response[1].content = Str(<<"p", "o", "n", "g">>)
    /\ response[1].finish_reason = "stop"

\* the fields of instance i, wherever they are held
FieldsOf(i) == IF i = self THEN This ELSE others[i]

\* the buffer, killed flag, timer and emitted events of instance i
PeerState(i) ==
    [buffer       |-> FieldsOf(i).buffer,
     isKilled     |-> FieldsOf(i).isKilled,
     timeoutId    |-> FieldsOf(i).timeoutId,
     timerPending |-> FieldsOf(i).timerPending,
     events       |-> FieldsOf(i).events]

(* C21: with several manager instances alive at once, a handler that runs on *)
(* one instance (start, a stdout chunk, the timer, kill, close) leaves the   *)
(* buffer, killed flag, timer and emitted events of every other instance     *)
(* unchanged, and turning from one instance to another changes those of none.*)
C21_InstancesIsolated ==
    [][\A i \in Instances :
           (i # self \/ self' # self) => PeerState(i)' = PeerState(i)]_vars

\* one instance was killed with a partial line buffered while the other has
\* closed after its timer fired
C21_Witness ==
    /\ self = "m2"
    /\ isKilled /\ buffer = <<"R">> /\ child = "running" /\ ~timerPending
    /\ signals = <<"SIGTERM">>
    /\ others["m1"].child = "closed"
    /\ others["m1"].events =
           <<TimeoutError, Event("message", <<"result">>),
             Event("result", <<"result">>), CloseEvent>>

\* start() was called in stream-messages mode
StreamCall ==
    /\ call[1].options.stdinMessages # None
    /\ Len(call[1].options.stdinMessages[1]) > 0

\* the argument vector of the same call made with the plain prompt x and,
\* where a session id was given, the plain session id y
PlainVector ==
    LET options == call[1].options
    IN  buildArgs(IF StreamCall THEN None ELSE Some(<<"x">>),
                  [options EXCEPT !.sessionId =
                       IF options.sessionId = None THEN None ELSE Some(<<"y">>)],
                  StreamCall)

(* C22: whatever the prompt and the session id contain, the argument vector   *)
(* handed to spawn() is the vector of the same call with a plain prompt and  *)
(* a plain session id, with the prompt standing verbatim in the one element  *)
(* of the plain prompt and the session id in the one element of the plain    *)
(* session id: same length, every other element the same.                     *)
C22_OneElementEach ==
    call # <<>> =>
        /\ Len(argv) = Len(PlainVector)
        /\ \A i \in 1..Len(PlainVector) :
               i <= Len(argv) =>
                   argv[i] = CASE PlainVector[i] = <<"x">> -> call[1].prompt
                               [] PlainVector[i] = <<"y">> -> call[1].options.sessionId[1]
                               [] OTHER -> PlainVector[i]

\* the child was spawned and has closed
ClosedNormally == child = "closed" /\ spawnErr = "ok"

(* C23: once the child has closed, the deadline timer is cancelled: the       *)
(* runtime holds no armed timer and the handle field is cleared, and no      *)
(* later step emits a timeout error or sends a signal.                        *)
C23_TimerCancelledOnClose ==
    /\ [](ClosedNormally => (~timerPending /\ timeoutId = "null"))
    /\ [][ClosedNormally =>
              (TimeoutErrors' = TimeoutErrors /\ signals' = signals)]_vars

\* the child closed before the deadline and kill() was called afterwards
C23_Witness ==
    /\ ClosedNormally
    /\ TimeoutErrors = 0
    /\ signals = <<>>
    /\ events[Len(events)] = CloseEvent
    /\ isKilled /\ killCalls = 1

\* the lines start() has to write: those of the call in stream-messages
\* mode, none in text-argument mode
LinesToWrite == IF StreamCall THEN LinesOfCall ELSE <<>>

\* the positions of the end() calls among the calls made on stdin
EndCalls == {i \in 1..Len(stdin.calls) : stdin.calls[i][1] = "end"}

(* C24: once the child is spawned, the calls made on its stdin are one write *)
(* per structured line, in the given order, of the line and one newline,     *)
(* and after them one end(); in text-argument mode the one end() alone. So   *)
(* stdin is ended exactly once, by the last call, and the child is handed    *)
(* exactly the lines.                                                         *)
C24_StdinInOrder ==
    (call # <<>> /\ process = "child") =>
        /\ stdin.calls =
              [i \in 1..Len(LinesToWrite) |-> <<"write", LinesToWrite[i] \o <<NL>>>>]
                 \o << <<"end", <<>>>> >>
        /\ EndCalls = {Len(stdin.calls)}
        /\ stdin.written = [i \in 1..Len(LinesToWrite) |-> LinesToWrite[i] \o <<NL>>]
        /\ stdin.ended

\* two different lines were written in their order, and the child has closed
C24_Witness ==
    /\ call # <<>> /\ StreamCall
    /\ LinesOfCall = << <<"{", "1", "}">>, <<"{", "2", "}">> >>
    /\ stdin.written = << <<"{", "1", "}", NL>>, <<"{", "2", "}", NL>> >>
    /\ stdin.calls[3] = <<"end", <<>>>>
    /\ child = "closed"

\* a step in which the manager handles a stderr chunk
StderrStep == stderrLog' # stderrLog

(* C25: a step that handles a stderr chunk, whatever the chunk holds, leaves  *)
(* the stdout line buffer and the emitted events unchanged (no message,      *)
(* content delta, assistant, result, raw, error or close event), as well as  *)
(* every other field of the manager.                                          *)
C25_StderrNotParsed ==
    [][StderrStep =>
           /\ buffer' = buffer
           /\ events' = events
           /\ UNCHANGED <<process, timeoutId, isKilled, timerPending, child,
                          startPromise, signals, received, text>>]_vars

\* a protocol line and a line end came on stderr while stdout had delivered
\* a partial line only: nothing was emitted
C25_Witness ==
    /\ {<<"R", NL>>, <<NL>>} \subseteq stderrLog
    /\ buffer = <<"R">>
    /\ received = <<"R">>
    /\ events = <<>>
    /\ child = "running"

(* C26: while the child runs, after every stdout chunk the buffer is exactly *)
(* the text received after the last newline, it holds no newline, and the    *)
(* events emitted are those of the lines a newline has ended: none reports   *)
(* the text still in the buffer.                                              *)
C26_NoPartialLine ==
    child = "running" =>
        /\ buffer = Unterminated
        /\ \A i \in 1..Len(buffer) : buffer[i] # NL
        /\ Len(events) = Len(OutputEvents)
        /\ SelectEvents(events, PrimaryNames) =
              [i \in 1..Len(CompleteLines) |-> PrimaryOf(CompleteLines[i])]

\* a line was reported and the start of the next one waits in the buffer
C26_Witness ==
    /\ child = "running"
    /\ received = <<"R", NL, "D", "A">>
    /\ buffer = <<"D", "A">>
    /\ events = <<Event("message", <<"result">>), Event("result", <<"result">>)>>

\* the running children and the armed timers that belong to the instance
RunningChildren == (IF child = "running" THEN 1 ELSE 0) + orphans.children
ArmedTimers == (IF timerPending THEN 1 ELSE 0) + orphans.timers

(* C27: over every sequence of start() and kill() calls on one instance,     *)
(* start() called again included, the instance has at most one running child *)
(* and at most one armed deadline timer, and no timer stays armed once the   *)
(* child has closed or kill() has taken effect.                               *)
C27_OneChildOneTimer ==
    /\ RunningChildren <= 1
    /\ ArmedTimers <= 1
    /\ (child = "closed" /\ RunningChildren = 0) => ArmedTimers = 0

\* start() resolved for a child that was spawned
StartSucceeded == startPromise = "resolved" /\ spawnErr = "ok"

\* the caller was delivered a close event or an error event
TerminalEvent == \E i \in 1..Len(events) : events[i][1] \in {"close", "error"}

(* C28: every request whose start() succeeded is eventually delivered a      *)
(* close event or an error event, under fair scheduling of the timer and     *)
(* whatever the child does, also when kill() was called before the deadline. *)
C28_EventuallyTerminal == StartSucceeded ~> TerminalEvent

====
